---- MODULE Spec2Model ----
(***************************************************************************)
(* A model of src/blockchain.py: transactions with constraint scripts, the *)
(* merkle commitment of a block's contents, block validation against an    *)
(* unspent-output dictionary, and the Blockchain index (blocks, cumulative *)
(* work and UTXO state per block hash) with extend and getTip.             *)
(*                                                                         *)
(* Abstractions.  sha256 over a serialization is collision free in the     *)
(* model.  A transaction hash is a small number computed from the fields   *)
(* of the transaction.  A block hash is the triple that getHash            *)
(* serializes, <<priorHash, merkle root, nonce>>, so two blocks have the   *)
(* same hash exactly when getHash serializes the same bytes; Digest gives  *)
(* the integer value of a block hash, which is what the proof-of-work      *)
(* comparison reads.  The parent hash 0 of a block that has no parent is   *)
(* the empty triple ZeroHash, whose Digest is 0.  The float that           *)
(* genesisTarget / target yields is an exact rational <<num, den>> in      *)
(* lowest terms.  A python exception is a returned string that names it.   *)
(***************************************************************************)
EXTENDS Integers, Sequences, FiniteSets, TLC

\* ------------------------------------------------------------------ bounds
\* The index holds at most MaxBlocks blocks, the genesis included.
MaxBlocks == 3
\* The integer values of block hashes range over 0..HashSpace - 1.
HashSpace == 8

\* ------------------------------------------------------- python primitives
None == "None"
PyTrue == "True"
PyFalse == "False"

\* bool(v) of a value a constraint script returns.
Truthy(v) == v \in {"True", "1"}

Exceptions == {"KeyError", "TypeError", "IndexError", "ZeroDivisionError"}

EmptyDict == [k \in {} |-> 0]

\* d[k] = v on a dictionary.
DictSet(d, k, v) == [x \in (DOMAIN d) \cup {k} |-> IF x = k THEN v ELSE d[x]]

\* del d[k].
DictDel(d, k) == [x \in (DOMAIN d) \ {k} |-> d[x]]

RECURSIVE SumSeq(_)
SumSeq(s) == IF s = <<>> THEN 0 ELSE Head(s) + SumSeq(Tail(s))

RECURSIVE GCD(_, _)
GCD(a, b) == IF b = 0 THEN a ELSE GCD(b, a % b)

\* The quotient n / d of true division, d > 0, in lowest terms.
Rat(n, d) == <<n \div GCD(n, d), d \div GCD(n, d)>>

RatAdd(a, b) == Rat(a[1] * b[2] + b[1] * a[2], a[2] * b[2])

RatLess(a, b) == a[1] * b[2] < b[1] * a[2]

\* ------------------------------------------------------------ Output, Input
\* Constraint scripts: "always" is lambda x: True, "first" is lambda x: x[0].
OutputInit(constraint, amount) ==
    [constraint |-> IF constraint = None THEN "always" ELSE constraint,
     amount |-> amount]

InputInit(txHash, txIdx, satisfier) ==
    [txHash |-> txHash, txIdx |-> txIdx, satisfier |-> satisfier]

\* output.constraint(satisfier): the value returned, or the exception raised.
CallConstraint(output, satisfier) ==
    IF output.constraint = "always" THEN PyTrue
    ELSE IF satisfier = <<>> THEN "IndexError"
    ELSE satisfier[1]

\* -------------------------------------------------------------- Transaction
\* inputs is None (inputsNone) or a list; outputs is a list.
TransactionInit(inputsNone, inputs, outputs, data) ==
    [inputsNone |-> inputsNone, inputs |-> inputs, outputs |-> outputs, data |-> data]

\* Transaction hashes are the even numbers 2..2 * TxHashSpace.
TxHashSpace == 37

OutputCode(o) == 2 * o.amount + (IF o.constraint = "first" THEN 1 ELSE 0) + 1

SatisfierCode(s) ==
    IF s = <<>> THEN 0
    ELSE IF s[1] = "True" THEN 1
    ELSE IF s[1] = "False" THEN 2
    ELSE 3

InputCode(i) == (i.txHash * 3 + i.txIdx * 2 + SatisfierCode(i.satisfier) + 1) % TxHashSpace

RECURSIVE Serialize(_, _)
Serialize(codes, acc) ==
    IF codes = <<>> THEN acc
    ELSE Serialize(Tail(codes), (acc * 11 + Head(codes)) % TxHashSpace)

\* Transaction.getHash: sha256 of the serialized transaction.
TxHash(tx) ==
    LET ins == [k \in 1..Len(tx.inputs) |-> InputCode(tx.inputs[k])]
        outs == [k \in 1..Len(tx.outputs) |-> OutputCode(tx.outputs[k])]
        start == IF tx.inputsNone THEN 1 ELSE 2
    IN 2 * (Serialize(outs, Serialize(ins, start + 3 * tx.data)) % TxHashSpace) + 2

Amounts(outputs) == [k \in 1..Len(outputs) |-> outputs[k].amount]

\* A mint check that asks for less than the maximum, as its docstring words it.
ValidateMintBelow(tx, maxCoinsToCreate) ==
    IF (~tx.inputsNone) /\ tx.inputs # <<>> THEN FALSE
    ELSE SumSeq(Amounts(tx.outputs)) < maxCoinsToCreate

ValidateMint(tx, maxCoinsToCreate) ==
    IF (~tx.inputsNone) /\ tx.inputs # <<>> THEN FALSE
    ELSE SumSeq(Amounts(tx.outputs)) <= maxCoinsToCreate

InputKey(input) == <<input.txHash, input.txIdx>>

\* The loop of lines 136-138 from input k on.
RECURSIVE CheckConstraints(_, _, _)
CheckConstraints(tx, unspentOutputDict, k) ==
    IF k > Len(tx.inputs) THEN PyTrue
    ELSE LET input == tx.inputs[k]
             r == CallConstraint(unspentOutputDict[InputKey(input)], input.satisfier)
         IN IF r \in Exceptions THEN r
            ELSE IF ~Truthy(r) THEN PyFalse
            ELSE CheckConstraints(tx, unspentOutputDict, k + 1)

\* Transaction.validate: "True", "False" or the exception raised.
TransactionValidate(tx, unspentOutputDict) ==
    IF tx.inputsNone THEN "TypeError"
    ELSE IF \E k \in 1..Len(tx.inputs) : InputKey(tx.inputs[k]) \notin DOMAIN unspentOutputDict
        THEN "KeyError"
    ELSE LET total_input ==
                 SumSeq([k \in 1..Len(tx.inputs) |->
                            unspentOutputDict[InputKey(tx.inputs[k])].amount])
             total_output == SumSeq(Amounts(tx.outputs))
         IN IF total_input < total_output THEN PyFalse
            ELSE CheckConstraints(tx, unspentOutputDict, 1)

\* ------------------------------------------------- the callers' transactions
\* A mint of exactly the per-block maximum, in two outputs.
Coinbase ==
    TransactionInit(TRUE, <<>>, <<OutputInit(None, 1), OutputInit("first", 1)>>, 0)

\* A mint of one coin more than the maximum.
BigCoinbase == TransactionInit(TRUE, <<>>, <<OutputInit(None, 3)>>, 0)

\* An empty input list and two outputs that carry no coins.
Creator ==
    TransactionInit(FALSE, <<>>, <<OutputInit("first", 0), OutputInit(None, 0)>>, 0)

\* Spends output txIdx of Creator.
Spend(txIdx, satisfier, outputs) ==
    TransactionInit(FALSE, <<InputInit(TxHash(Creator), txIdx, satisfier)>>, outputs, 0)

SpendTrue == Spend(0, <<"True">>, <<OutputInit(None, 0)>>)
SpendFalse == Spend(0, <<"False">>, <<OutputInit(None, 0)>>)
SpendTruthy == Spend(0, <<"1">>, <<OutputInit(None, 0)>>)
SpendRaise == Spend(0, <<>>, <<OutputInit(None, 0)>>)
SpendOver == Spend(1, <<>>, <<OutputInit(None, 1)>>)
SpendTwice ==
    TransactionInit(FALSE, <<InputInit(TxHash(Creator), 1, <<>>),
                              InputInit(TxHash(Creator), 1, <<>>)>>, <<>>, 0)
SpendCoinbase ==
    TransactionInit(FALSE, <<InputInit(TxHash(Coinbase), 0, <<>>)>>,
                    <<OutputInit(None, 1)>>, 0)

\* The hash of a transaction whose first output, of three coins, is in the
\* dictionary Funded.
FundingHash == 4

\* Spends the funded output once, and twice for twice its coins.
SpendFunded ==
    TransactionInit(FALSE, <<InputInit(FundingHash, 0, <<>>)>>, <<OutputInit(None, 3)>>, 0)
SpendFundedTwice ==
    TransactionInit(FALSE, <<InputInit(FundingHash, 0, <<>>),
                              InputInit(FundingHash, 0, <<>>)>>,
                    <<OutputInit(None, 6)>>, 0)

\* The transaction objects; a list of transactions holds references to them.
TxObjects ==
    [Coinbase |-> Coinbase, BigCoinbase |-> BigCoinbase, Creator |-> Creator,
     SpendTrue |-> SpendTrue, SpendFalse |-> SpendFalse, SpendTruthy |-> SpendTruthy,
     SpendRaise |-> SpendRaise, SpendOver |-> SpendOver, SpendTwice |-> SpendTwice,
     SpendCoinbase |-> SpendCoinbase, SpendFunded |-> SpendFunded,
     SpendFundedTwice |-> SpendFundedTwice]

Transactions == DOMAIN TxObjects

Obj(ref) == TxObjects[ref]

\* getHash() of every transaction object.
HashOf == [ref \in Transactions |-> TxHash(Obj(ref))]

\* The hashes getHash() gives for the objects of a list.
Hashes(list) == [k \in 1..Len(list) |-> HashOf[list[k]]]

TxLists ==
    {<<"BigCoinbase">>, <<"SpendTrue">>, <<"Coinbase", "Coinbase">>,
     <<"Coinbase", "Creator">>, <<"Coinbase", "Creator", "SpendTrue">>,
     <<"Coinbase", "SpendTrue">>, <<"Coinbase", "SpendFalse">>,
     <<"Coinbase", "SpendTruthy">>, <<"Coinbase", "SpendRaise">>,
     <<"Coinbase", "SpendOver">>, <<"Coinbase", "SpendTwice">>,
     <<"Coinbase", "SpendCoinbase">>}

\* ------------------------------------------------------- HashableMerkleTree
\* sha256(L || R) of two 32-byte nodes: injective, odd, never a transaction hash.
Sha256Pair(l, r) == 2 * (((l + r) * (l + r + 1)) \div 2 + r) + 1

RECURSIVE PairUp(_)
PairUp(nodes) ==
    IF nodes = <<>> THEN <<>>
    ELSE <<Sha256Pair(nodes[1], nodes[2])>> \o PairUp(SubSeq(nodes, 3, Len(nodes)))

\* A tree that pads an odd level with a copy of its last node.
RECURSIVE MerkleLevelsCopyLast(_)
MerkleLevelsCopyLast(nodes) ==
    IF Len(nodes) <= 1 THEN nodes[1]
    ELSE MerkleLevelsCopyLast(
             PairUp(IF Len(nodes) % 2 = 1 THEN Append(nodes, nodes[Len(nodes)])
                    ELSE nodes))

\* Lines 171-175: the while loop over the levels.
RECURSIVE MerkleLevels(_)
MerkleLevels(nodes) ==
    IF Len(nodes) <= 1 THEN nodes[1]
    ELSE MerkleLevels(PairUp(IF Len(nodes) % 2 = 1 THEN Append(nodes, 0) ELSE nodes))

\* calcMerkleRoot of a tree over items whose getHash() values are hashes.
CalcMerkleRoot(hashes) ==
    IF hashes = <<>> THEN 0
    ELSE IF Len(hashes) = 1 THEN hashes[1]
    ELSE MerkleLevels(hashes)

\* --------------------------------------------------------------------- Block
ZeroHash == <<>>

\* Block.__init__.  transactions is the list object contents.transactions held
\* when the block was made; setData binds contents.transactions to another
\* list and leaves Block.transactions on the first one.
BlockInit ==
    [priorHash |-> ZeroHash, target |-> 0, nonce |-> 0, data |-> <<>>,
     transactions |-> <<>>]

SetContents(block, d) == [block EXCEPT !.data = d]

\* The caller writes the public attribute: block.transactions = txs.
SetTransactions(block, txs) == [block EXCEPT !.transactions = txs]

SetTarget(block, target) == [block EXCEPT !.target = target]

SetPriorBlockHash(block, priorHash) == [block EXCEPT !.priorHash = priorHash]

SetNonce(block, nonce) == [block EXCEPT !.nonce = nonce]

GetHash(block) ==
    <<block.priorHash, CalcMerkleRoot(Hashes(block.data)), block.nonce>>

\* The integer value of a block hash.
RECURSIVE Digest(_)
Digest(h) ==
    IF h = ZeroHash THEN 0
    ELSE (Digest(h[1]) * 3 + (h[2] % HashSpace) * 5 + h[3] * 7 + 7) % HashSpace

\* An entry that takes the largest target whatever target it is passed.
MineEnterEasiest(block, tgt) == [block EXCEPT !.target = HashSpace]

\* Line 247: self.target = tgt.
MineEnter(block, tgt) == [block EXCEPT !.target = tgt]

\* A loop test that lets a hash equal to the target pass.
MineContinuesAbove(block) == Digest(GetHash(block)) > block.target

\* Line 248: the test of the while loop.
MineContinues(block) == Digest(GetHash(block)) >= block.target

\* Line 249: self.nonce += 1.
MineAdvance(block) == [block EXCEPT !.nonce = block.nonce + 1]

\* The loop of Block.mine; it does not end when no nonce gives a hash below
\* the target.
RECURSIVE MineLoop(_)
MineLoop(block) ==
    IF Digest(GetHash(block)) >= block.target
    THEN MineLoop([block EXCEPT !.nonce = block.nonce + 1])
    ELSE block

Mine(block, tgt) == MineLoop([block EXCEPT !.target = tgt])

\* A removal that passes over an input whose key is not in the dictionary.
RECURSIVE RemoveInputsPresent(_, _, _)
RemoveInputsPresent(tx, new_utxo, k) ==
    IF k > Len(tx.inputs) THEN [status |-> "ok", utxo |-> new_utxo]
    ELSE RemoveInputsPresent(tx, DictDel(new_utxo, InputKey(tx.inputs[k])), k + 1)

\* Lines 286-290 from input k on: the dictionary left, or None.
RECURSIVE RemoveInputs(_, _, _)
RemoveInputs(tx, new_utxo, k) ==
    IF k > Len(tx.inputs) THEN [status |-> "ok", utxo |-> new_utxo]
    ELSE IF InputKey(tx.inputs[k]) \in DOMAIN new_utxo
        THEN RemoveInputs(tx, DictDel(new_utxo, InputKey(tx.inputs[k])), k + 1)
    ELSE [status |-> None, utxo |-> EmptyDict]

\* Lines 282-283: new_utxo[(tx.getHash(), idx)] = output for every output of
\* the transaction ref refers to.
AddOutputs(ref, new_utxo) ==
    LET added == {<<HashOf[ref], idx>> : idx \in 0..(Len(Obj(ref).outputs) - 1)}
    IN [key \in (DOMAIN new_utxo) \cup added |->
           IF key \in added THEN Obj(ref).outputs[key[2] + 1] ELSE new_utxo[key]]

\* The loop of lines 276-290 from transaction k on.
RECURSIVE ApplyTransactions(_, _, _)
ApplyTransactions(transactions, new_utxo, k) ==
    IF k > Len(transactions) THEN [status |-> "ok", utxo |-> new_utxo]
    ELSE LET tx == Obj(transactions[k])
             v == TransactionValidate(tx, new_utxo)
         IN IF v \in Exceptions THEN [status |-> v, utxo |-> EmptyDict]
            ELSE IF v # PyTrue THEN [status |-> None, utxo |-> EmptyDict]
            ELSE LET removed == RemoveInputs(tx, AddOutputs(transactions[k], new_utxo), 1)
                 IN IF removed.status # "ok" THEN removed
                    ELSE ApplyTransactions(transactions, removed.utxo, k + 1)

\* A validation that leaves out the comparison of the hash with the target.
BlockValidateAnyHash(block, unspentOutputs, maxMint) ==
    IF block.transactions = <<>> THEN [status |-> "ok", utxo |-> unspentOutputs]
    ELSE IF ~ValidateMint(Obj(block.transactions[1]), maxMint)
        THEN [status |-> None, utxo |-> EmptyDict]
    ELSE ApplyTransactions(block.transactions, unspentOutputs, 2)

\* Block.validate: status "ok" with the new UTXO set, "None", or the exception
\* raised.
BlockValidate(block, unspentOutputs, maxMint) ==
    IF Digest(GetHash(block)) >= block.target THEN [status |-> None, utxo |-> EmptyDict]
    ELSE IF block.transactions = <<>> THEN [status |-> "ok", utxo |-> unspentOutputs]
    ELSE IF ~ValidateMint(Obj(block.transactions[1]), maxMint)
        THEN [status |-> None, utxo |-> EmptyDict]
    ELSE ApplyTransactions(block.transactions, unspentOutputs, 2)

\* A dictionary of unspent outputs that holds three coins, and the lists of
\* the blocks validated against it.
Funded == DictSet(EmptyDict, <<FundingHash, 0>>, OutputInit(None, 3))

FundedLists ==
    {<<"Coinbase", "SpendFunded">>, <<"Coinbase", "SpendFundedTwice">>,
     <<"Coinbase", "SpendFunded", "SpendFunded">>}

SetContentsLists == {<<"BigCoinbase">>, <<"Coinbase", "Creator">>}

Targets == {0, HashSpace \div 4, HashSpace}

Nonces == {0, 1}

GenesisTargets == {HashSpace \div 2}

MintLimits == {2}

\* A hash no block of the index has: the index has one block whose parent is
\* ZeroHash, the genesis, and its merkle root is 0.
UnknownHash == <<ZeroHash, 1, 0>>

\* ---------------------------------------------------------------- Blockchain
\* genesisTarget, maxMintCoinsPerTx, blocks, cumulative_work and utxo_state are
\* the fields of the Blockchain; order is the insertion order of the keys of
\* cumulative_work, which max() of getTip iterates in.  The next three describe
\* the last call of extend: what the lookup of line 365 met ("found",
\* "sentinel" for the parent hash 0, "absent" for another hash that is no key),
\* the value returned or the exception raised, and the line the call left at.
\* call is the call of a method of Transaction, HashableMerkleTree or Block a
\* caller made last: its arguments and its result, or for Block.mine the block
\* while the loop runs.
VARIABLES genesisTarget, maxMintCoinsPerTx, blocks, cumulative_work, utxo_state,
          order, priorLookup, returned, exitLine, call

vars ==
    <<genesisTarget, maxMintCoinsPerTx, blocks, cumulative_work, utxo_state, order,
      priorLookup, returned, exitLine, call>>

\* The three dictionaries of the index.
index == <<blocks, cumulative_work, utxo_state>>

\* genesisTarget / target; the division raises ZeroDivisionError on target 0.
GetWork(target) == Rat(genesisTarget, target)

GetWorkRaises(target) == target = 0

\* Blockchain.__init__.
Init ==
    /\ genesisTarget \in GenesisTargets
    /\ maxMintCoinsPerTx \in MintLimits
    /\ LET genesis == Mine(SetTarget(BlockInit, genesisTarget), genesisTarget)
       IN /\ blocks = DictSet(EmptyDict, GetHash(genesis), genesis)
          /\ cumulative_work = DictSet(EmptyDict, GetHash(genesis), GetWork(genesisTarget))
          /\ order = <<GetHash(genesis)>>
    /\ utxo_state = EmptyDict
    /\ priorLookup = None
    /\ returned = None
    /\ exitLine = 316
    /\ call = [op |-> "none"]

\* A getTip that takes the block added last for the tip.
MaxWorkKeyLatest == order[Len(order)]

\* max(self.cumulative_work, key=self.cumulative_work.get): the first key, in
\* insertion order, whose value no other key's value exceeds.
MaxWorkKey ==
    LET i == CHOOSE i \in 1..Len(order) :
                 /\ \A j \in 1..Len(order) :
                        ~RatLess(cumulative_work[order[i]], cumulative_work[order[j]])
                 /\ \A j \in 1..(i - 1) :
                        RatLess(cumulative_work[order[j]], cumulative_work[order[i]])
    IN order[i]

GetTip == IF MaxWorkKey \in DOMAIN blocks THEN blocks[MaxWorkKey] ELSE None

GetCumulativeWork(blkHash) ==
    IF blkHash \in DOMAIN cumulative_work THEN cumulative_work[blkHash] ELSE None

\* The blocks a caller hands to extend.
MakeBlock(priorHash, d, txs, target, nonce) ==
    SetNonce(SetTarget(SetTransactions(SetContents(
        SetPriorBlockHash(BlockInit, priorHash), d), txs), target), nonce)

Parents == (DOMAIN blocks) \cup {ZeroHash, UnknownHash}

\* Lines 370-375: the UTXO state of the prior block, taken from utxo_state
\* or, when it has none, made by validating the prior block against {}.
PriorValidation(prior_block) ==
    IF GetHash(prior_block) \in DOMAIN utxo_state
    THEN [status |-> "ok", utxo |-> utxo_state[GetHash(prior_block)]]
    ELSE BlockValidate(prior_block, EmptyDict, maxMintCoinsPerTx)

\* utxo_state after line 376, prior being PriorValidation(prior_block).
UtxoStateAfterPrior(prior_block, prior) ==
    IF GetHash(prior_block) \in DOMAIN utxo_state \/ prior.status # "ok"
    THEN utxo_state
    ELSE DictSet(utxo_state, GetHash(prior_block), prior.utxo)

Leave(value, line) ==
    /\ returned' = value
    /\ exitLine' = line

\* A lookup that takes the tip for the parent of a block whose parent is no key.
PriorBlockOrTip(block) ==
    IF block.priorHash \in DOMAIN blocks
    THEN [found |-> TRUE, block |-> blocks[block.priorHash]]
    ELSE [found |-> TRUE, block |-> blocks[MaxWorkKey]]

\* A lookup that takes the genesis for the parent of a block whose parent is
\* no key.
PriorBlockOrGenesis(block) ==
    IF block.priorHash \in DOMAIN blocks
    THEN [found |-> TRUE, block |-> blocks[block.priorHash]]
    ELSE [found |-> TRUE, block |-> blocks[order[1]]]

\* Line 365: self.blocks.get(block.priorHash, None).
PriorBlock(block) ==
    IF block.priorHash \in DOMAIN blocks
    THEN [found |-> TRUE, block |-> blocks[block.priorHash]]
    ELSE [found |-> FALSE, block |-> BlockInit]

\* Lines 379-389: the result of block.validate is tested and the block stored,
\* h being its hash, after_prior utxo_state after line 376 and new_utxo_state
\* what block.validate returned or raised at line 378.
ExtendStore(block, h, after_prior, new_utxo_state) ==
    IF new_utxo_state.status = None
    THEN /\ Leave(PyFalse, 380)
         /\ utxo_state' = after_prior
         /\ UNCHANGED <<blocks, cumulative_work, order>>
    ELSE IF new_utxo_state.status # "ok"
    THEN /\ Leave(new_utxo_state.status, 378)
         /\ utxo_state' = after_prior
         /\ UNCHANGED <<blocks, cumulative_work, order>>
    ELSE IF block.priorHash \notin DOMAIN cumulative_work
    THEN /\ Leave("KeyError", 385)
         /\ blocks' = DictSet(blocks, h, block)
         /\ utxo_state' = after_prior
         /\ UNCHANGED <<cumulative_work, order>>
    ELSE IF GetWorkRaises(block.target)
    THEN /\ Leave("ZeroDivisionError", 385)
         /\ blocks' = DictSet(blocks, h, block)
         /\ utxo_state' = after_prior
         /\ UNCHANGED <<cumulative_work, order>>
    ELSE /\ Leave(PyTrue, 389)
         /\ blocks' = DictSet(blocks, h, block)
         /\ cumulative_work' =
                DictSet(cumulative_work, h,
                        RatAdd(cumulative_work[block.priorHash],
                               GetWork(block.target)))
         /\ utxo_state' = DictSet(after_prior, h, new_utxo_state.utxo)
         /\ order' = IF h \in DOMAIN blocks THEN order ELSE Append(order, h)

\* Lines 370-378: the parent's snapshot is looked up or rebuilt, prior being
\* PriorValidation(prior_block), and the block is validated against it.
ExtendValidate(block, h, prior_block, prior) ==
    IF prior.status = None
    THEN /\ Leave(PyFalse, 375)
         /\ UNCHANGED <<blocks, cumulative_work, utxo_state, order>>
    ELSE IF prior.status # "ok"
    THEN /\ Leave(prior.status, 373)
         /\ UNCHANGED <<blocks, cumulative_work, utxo_state, order>>
    ELSE ExtendStore(block, h, UtxoStateAfterPrior(prior_block, prior),
                     BlockValidate(block, prior.utxo, maxMintCoinsPerTx))

\* Lines 365-367: the parent is looked up, lookup being PriorBlock(block).
ExtendLookup(block, h, lookup) ==
    /\ h \notin DOMAIN blocks => Cardinality(DOMAIN blocks) < MaxBlocks
    /\ UNCHANGED <<genesisTarget, maxMintCoinsPerTx, call>>
    /\ priorLookup' = IF block.priorHash \in DOMAIN blocks THEN "found"
                      ELSE IF block.priorHash = ZeroHash THEN "sentinel"
                      ELSE "absent"
    /\ IF ~lookup.found
       THEN /\ Leave(PyFalse, 367)
            /\ UNCHANGED <<blocks, cumulative_work, utxo_state, order>>
       ELSE ExtendValidate(block, h, lookup.block, PriorValidation(lookup.block))

\* Blockchain.extend(block).
Extend(block) == ExtendLookup(block, GetHash(block), PriorBlock(block))

\* A block without transactions, of any target and nonce.
ExtendEmpty ==
    \E p \in Parents, t \in Targets, n \in Nonces :
        Extend(MakeBlock(p, <<>>, <<>>, t, n))

\* A block of the easiest target whose caller set the contents with setContents
\* and bound block.transactions to the same list.
ExtendFilled ==
    \E p \in Parents, d \in TxLists : Extend(MakeBlock(p, d, d, HashSpace, 0))

\* A block of the easiest target whose caller set the contents with setContents
\* alone.
ExtendContents ==
    \E p \in Parents, d \in SetContentsLists :
        Extend(MakeBlock(p, d, <<>>, HashSpace, 0))

Next == ExtendEmpty \/ ExtendFilled \/ ExtendContents

Spec == Init /\ [][Next]_vars

\* ------------------------------------- calls of the methods outside the index
\* The loop of Block.mine is followed up to the nonce MaxNonce.
MaxNonce == 12

\* The caller is inside no call: python runs one call at a time, and a call
\* of mine whose loop has not ended has not returned.
CallerFree == IF call.op = "mine" THEN call.pc = "done" ELSE TRUE

\* Transactions handed to validateMint: inputs None, [] or one input, and up
\* to two outputs of 0..2 coins.
MintInputs ==
    {[inputsNone |-> TRUE, inputs |-> <<>>], [inputsNone |-> FALSE, inputs |-> <<>>],
     [inputsNone |-> FALSE, inputs |-> <<InputInit(2, 0, <<>>)>>]}

MintOutputs ==
    {<<>>} \cup {<<OutputInit(None, a)>> : a \in 0..2}
           \cup {<<OutputInit(None, a), OutputInit("first", b)>> : a \in 0..2, b \in 0..2}

MintMaxima == 0..4

\* tx.validateMint(maxCoinsToCreate).
CallValidateMint ==
    /\ CallerFree
    /\ \E i \in MintInputs, outputs \in MintOutputs, n \in MintMaxima :
           LET tx == TransactionInit(i.inputsNone, i.inputs, outputs, 0)
           IN call' = [op |-> "validateMint", tx |-> tx, maxCoinsToCreate |-> n,
                       result |-> ValidateMint(tx, n)]
    /\ UNCHANGED <<genesisTarget, maxMintCoinsPerTx, blocks, cumulative_work,
                   utxo_state, order, priorLookup, returned, exitLine>>

\* The getHash() values of the items of a tree: up to four items of three
\* hashes, and five or six items of two.
MerkleInputs ==
    UNION {[1..n -> {2, 4, 6}] : n \in 0..4} \cup UNION {[1..n -> {2, 4}] : n \in 5..6}

\* HashableMerkleTree(items).calcMerkleRoot().
CallCalcMerkleRoot ==
    /\ CallerFree
    /\ \E hashes \in MerkleInputs :
           call' = [op |-> "calcMerkleRoot", hashes |-> hashes,
                    result |-> CalcMerkleRoot(hashes)]
    /\ UNCHANGED <<genesisTarget, maxMintCoinsPerTx, blocks, cumulative_work,
                   utxo_state, order, priorLookup, returned, exitLine>>

MineParents == {ZeroHash, UnknownHash}

MineContents == {<<>>, <<"Coinbase", "Creator">>}

MineNonces == {0, 1, 2}

MineTargets == 0..HashSpace

\* block.mine(tgt) is entered: line 247.
CallMine ==
    /\ CallerFree
    /\ \E p \in MineParents, d \in MineContents, n \in MineNonces, tgt \in MineTargets :
           LET block == MakeBlock(p, d, d, 0, n)
           IN call' = [op |-> "mine", tgt |-> tgt, start |-> block,
                       block |-> MineEnter(block, tgt), pc |-> "loop"]
    /\ UNCHANGED <<genesisTarget, maxMintCoinsPerTx, blocks, cumulative_work,
                   utxo_state, order, priorLookup, returned, exitLine>>

\* One round of the loop of lines 248-249.
MineStep ==
    /\ call.op = "mine"
    /\ call.pc = "loop"
    /\ MineContinues(call.block)
    /\ call.block.nonce < MaxNonce
    /\ call' = [call EXCEPT !.block = MineAdvance(call.block)]
    /\ UNCHANGED <<genesisTarget, maxMintCoinsPerTx, blocks, cumulative_work,
                   utxo_state, order, priorLookup, returned, exitLine>>

\* The test of line 248 fails and mine returns.
MineReturn ==
    /\ call.op = "mine"
    /\ call.pc = "loop"
    /\ ~MineContinues(call.block)
    /\ call' = [call EXCEPT !.pc = "done"]
    /\ UNCHANGED <<genesisTarget, maxMintCoinsPerTx, blocks, cumulative_work,
                   utxo_state, order, priorLookup, returned, exitLine>>

NextCalls == CallValidateMint \/ CallCalcMerkleRoot \/ CallMine \/ MineStep \/ MineReturn

\* The interpreter keeps running the call it is in.
SpecCalls == Init /\ [][NextCalls]_vars /\ WF_vars(MineStep) /\ WF_vars(MineReturn)

\* ------------------------------------------------------------------- queries
\* The walk of lines 339-343: the parent hops from block_hash to the root.
RECURSIVE HeightOf(_)
HeightOf(block_hash) ==
    IF blocks[block_hash].priorHash \in DOMAIN blocks
    THEN 1 + HeightOf(blocks[block_hash].priorHash)
    ELSE 0

\* The hashes on the walk from block_hash to the root, both included.
RECURSIVE Ancestry(_)
Ancestry(block_hash) ==
    IF blocks[block_hash].priorHash \in DOMAIN blocks
    THEN {block_hash} \cup Ancestry(blocks[block_hash].priorHash)
    ELSE {block_hash}

\* A query that looks at the chain of the tip only.
RECURSIVE TipChainFrom(_, _)
TipChainFrom(k, height) ==
    IF k > Len(order) THEN <<>>
    ELSE (IF order[k] \in Ancestry(MaxWorkKey) /\ HeightOf(order[k]) = height
          THEN <<blocks[order[k]]>> ELSE <<>>) \o TipChainFrom(k + 1, height)

GetBlocksAtHeightOfTip(height) == TipChainFrom(1, height)

\* The loop of lines 337-346 from the k-th key of blocks on; the keys of blocks
\* are in the order of insertion, which is order.
RECURSIVE ResultsFrom(_, _)
ResultsFrom(k, height) ==
    IF k > Len(order) THEN <<>>
    ELSE (IF HeightOf(order[k]) = height THEN <<blocks[order[k]]>> ELSE <<>>)
             \o ResultsFrom(k + 1, height)

\* Blockchain.getBlocksAtHeight(height).
GetBlocksAtHeight(height) == ResultsFrom(1, height)

Snapshots == {utxo_state[h] : h \in DOMAIN utxo_state}

UtxoTotal(utxo) ==
    LET RECURSIVE Total(_)
        Total(keys) ==
            IF keys = {} THEN 0
            ELSE LET k == CHOOSE k \in keys : TRUE
                 IN utxo[k].amount + Total(keys \ {k})
    IN Total(DOMAIN utxo)

\* The coins the first transaction of a block creates.
Minted(block) ==
    IF block.transactions = <<>> THEN 0
    ELSE SumSeq(Amounts(Obj(block.transactions[1]).outputs))

RECURSIVE ChainMinted(_)
ChainMinted(block_hash) ==
    Minted(blocks[block_hash]) +
        (IF blocks[block_hash].priorHash \in DOMAIN blocks
         THEN ChainMinted(blocks[block_hash].priorHash)
         ELSE 0)

\* -------------------------------------------------------------------- claims

C2_ContentsMintValidated ==
    \A h \in DOMAIN blocks :
        blocks[h].data # <<>> =>
            ValidateMint(Obj(blocks[h].data[1]), maxMintCoinsPerTx)

\* C3: the UTXO snapshot of an accepted block holds as many coins as the
\* first transactions of the blocks of its chain minted, every output of the
\* block's first transaction is in it under (hash, index), and no entry an
\* input of the block consumed is.
C3_SnapshotHoldsMintedCoins ==
    \A h \in (DOMAIN blocks) \cap (DOMAIN utxo_state) :
        LET txs == blocks[h].transactions
        IN /\ UtxoTotal(utxo_state[h]) = ChainMinted(h)
           /\ txs # <<>> =>
                  \A idx \in 0..(Len(Obj(txs[1]).outputs) - 1) :
                      <<HashOf[txs[1]], idx>> \in DOMAIN utxo_state[h]
           /\ \A k \in 2..Len(txs) :
                  \A i \in 1..Len(Obj(txs[k]).inputs) :
                      InputKey(Obj(txs[k]).inputs[i]) \notin DOMAIN utxo_state[h]

\* C4: an extend whose block has its parent in the index and fails validation
\* returns false and leaves blocks, cumulative_work and utxo_state as they
\* were.
C4_FailedExtendLeavesIndex ==
    [][(priorLookup' = "found" /\ exitLine' \in {378, 380})
           => (returned' = PyFalse /\ UNCHANGED index)]_vars

\* C5: an extend whose block names a parent hash that is no key of the index,
\* the sentinel included, returns false and leaves blocks, cumulative_work and
\* utxo_state as they were, so getTip and getCumulativeWork answer as before.
C5_UnknownParentLeavesIndex ==
    [][(priorLookup' \in {"sentinel", "absent"})
           => /\ returned' = PyFalse
              /\ UNCHANGED <<index, order>>
              /\ GetTip' = GetTip
              /\ \A h \in (DOMAIN blocks) \cup {ZeroHash, UnknownHash} :
                     GetCumulativeWork(h)' = GetCumulativeWork(h)]_vars

\* C5, witness: an index of two blocks, each with its snapshot, has rejected a
\* block whose parent is the sentinel.
C5_Witness ==
    /\ priorLookup = "sentinel"
    /\ returned = PyFalse
    /\ Cardinality(DOMAIN blocks) = 2
    /\ DOMAIN utxo_state = DOMAIN blocks

\* C6: Transaction.validate returns true only when every input's constraint
\* script returned exactly True.
C6_OnlyExactlyTrueSpends ==
    \A u \in Snapshots : \A ref \in Transactions :
        TransactionValidate(Obj(ref), u) = PyTrue =>
            \A k \in 1..Len(Obj(ref).inputs) :
                CallConstraint(u[InputKey(Obj(ref).inputs[k])],
                               Obj(ref).inputs[k].satisfier) = PyTrue

\* A constraint script of the transaction raises on its satisfier.
ConstraintRaises(tx, u) ==
    /\ ~tx.inputsNone
    /\ \A k \in 1..Len(tx.inputs) : InputKey(tx.inputs[k]) \in DOMAIN u
    /\ \E k \in 1..Len(tx.inputs) :
           CallConstraint(u[InputKey(tx.inputs[k])], tx.inputs[k].satisfier)
               \in Exceptions

\* C7: a spend whose constraint script raises is a spend whose script returns
\* false: Transaction.validate returns false and no exception of a script
\* leaves extend.
C7_RaisingConstraintIsFalse ==
    /\ \A u \in Snapshots : \A ref \in Transactions :
           ConstraintRaises(Obj(ref), u) => TransactionValidate(Obj(ref), u) = PyFalse
    /\ returned # "IndexError"

\* C8: a transaction with absent inputs, or with an input that is no key of
\* the UTXO set, makes Transaction.validate return false, and extend returns
\* a value.
C8_MissingInputIsFalse ==
    /\ \A u \in Snapshots : \A ref \in Transactions :
           (Obj(ref).inputsNone
            \/ \E k \in 1..Len(Obj(ref).inputs) :
                   InputKey(Obj(ref).inputs[k]) \notin DOMAIN u)
               => TransactionValidate(Obj(ref), u) = PyFalse
    /\ returned \notin Exceptions

\* C9: the genesis has cumulative work 1, every other accepted block has the
\* recorded cumulative work of its parent plus genesisTarget / its target,
\* and no accepted block has target 0.
C9_WorkIsParentWorkPlusOwn ==
    \A h \in DOMAIN blocks :
        /\ blocks[h].target # 0
        /\ IF blocks[h].priorHash \in DOMAIN blocks
           THEN cumulative_work[h] =
                    RatAdd(cumulative_work[blocks[h].priorHash],
                           GetWork(blocks[h].target))
           ELSE cumulative_work[h] = <<1, 1>>

\* C10: every block of the blocks map has a UTXO snapshot under its hash,
\* from construction on, and the snapshot of the genesis is empty.
C10_EveryBlockHasSnapshot ==
    /\ DOMAIN blocks \subseteq DOMAIN utxo_state
    /\ utxo_state[order[1]] = EmptyDict

\* C11: a UTXO snapshot recorded in utxo_state under a block hash stays as it
\* was recorded through every later extend.
C11_SnapshotsNeverChange ==
    [][\A h \in DOMAIN utxo_state :
           /\ h \in DOMAIN utxo_state'
           /\ utxo_state'[h] = utxo_state[h]]_vars

\* Block.validate returns None for every block whose hash is not below its
\* target, whatever its transactions.
HashAtOrAboveTargetIsInvalid ==
    \A d \in TxLists \cup {<<>>}, t \in Targets, n \in Nonces, m \in MintLimits :
        LET block == MakeBlock(ZeroHash, d, d, t, n)
        IN Digest(GetHash(block)) >= t =>
               BlockValidate(block, EmptyDict, m).status = None

\* C12: every accepted block, the genesis included, is stored under its hash
\* and has a hash below its target, and Block.validate returns None for a
\* block whose hash is not below its target, whatever its transactions.
C12_AcceptedBlocksHaveWork ==
    /\ \A h \in DOMAIN blocks :
           /\ GetHash(blocks[h]) = h
           /\ Digest(h) < blocks[h].target
    /\ HashAtOrAboveTargetIsInvalid

\* C12, witness: the index holds a block accepted at the harder target, and
\* the last extend was refused by block.validate.
C12_Witness ==
    /\ \E h \in DOMAIN blocks :
           /\ h # order[1]
           /\ blocks[h].target = HashSpace \div 4
    /\ priorLookup = "found"
    /\ returned = PyFalse
    /\ exitLine = 380

\* C13: the parent of every accepted block but the genesis is an accepted
\* block and the walk along parent hashes reaches the genesis made at
\* construction; the keys of cumulative_work and utxo_state are keys of blocks;
\* and no step removes a key of blocks.
C13_AncestorsAreAccepted ==
    /\ [](/\ \A h \in DOMAIN blocks :
               /\ h # order[1] => blocks[h].priorHash \in DOMAIN blocks
               /\ order[1] \in Ancestry(h)
          /\ blocks[order[1]].priorHash = ZeroHash
          /\ DOMAIN cumulative_work \subseteq DOMAIN blocks
          /\ DOMAIN utxo_state \subseteq DOMAIN blocks)
    /\ [][DOMAIN blocks \subseteq DOMAIN blocks']_vars

\* C13, witness: a chain of two blocks above the genesis, every block with its
\* cumulative work and its snapshot.
C13_Witness ==
    /\ \E h \in DOMAIN blocks : HeightOf(h) = 2
    /\ DOMAIN cumulative_work = DOMAIN blocks
    /\ DOMAIN utxo_state = DOMAIN blocks

\* The places (height, position) at which getBlocksAtHeight returns block.
PlacesOf(block) ==
    {hk \in (0..MaxBlocks) \X (1..MaxBlocks) :
        /\ hk[2] <= Len(GetBlocksAtHeight(hk[1]))
        /\ GetBlocksAtHeight(hk[1])[hk[2]] = block}

HeightsOf(block) == {hk[1] : hk \in PlacesOf(block)}

\* C14: getBlocksAtHeight(0) is the genesis alone; a block other than the
\* genesis is returned for height + 1 exactly when its parent is returned for
\* height; every accepted block is returned once, for one height; and only
\* accepted blocks are returned.
C14_BlocksAtHeight ==
    /\ GetBlocksAtHeight(0) = <<blocks[order[1]]>>
    /\ \A h \in DOMAIN blocks :
           /\ Cardinality(PlacesOf(blocks[h])) = 1
           /\ h # order[1] =>
                  \A height \in 0..MaxBlocks :
                      (height + 1) \in HeightsOf(blocks[h])
                          <=> height \in HeightsOf(blocks[blocks[h].priorHash])
    /\ \A height \in 0..MaxBlocks :
           \A k \in 1..Len(GetBlocksAtHeight(height)) :
               \E h \in DOMAIN blocks : GetBlocksAtHeight(height)[k] = blocks[h]

\* C14, witness: two forks of one block each, both returned for height 1.
C14_Witness ==
    /\ Len(GetBlocksAtHeight(1)) = 2
    /\ GetBlocksAtHeight(1)[1] # GetBlocksAtHeight(1)[2]
    /\ GetBlocksAtHeight(2) = <<>>

\* The hash value block has with nonce n.
DigestAtNonce(block, n) == Digest(GetHash(SetNonce(block, n)))

MineRunning == IF call.op = "mine" THEN call.pc = "loop" ELSE FALSE

MineDone == IF call.op = "mine" THEN call.pc = "done" ELSE FALSE

\* C15: mine(tgt) returns with the target set to tgt, a hash below tgt and the
\* smallest nonce, from the nonce the block had, that gives one, with every
\* other field as it was; it returns whenever a nonce from the current one on
\* gives such a hash; and it does not return when none does.
C15_MineStopsAtSmallestNonce ==
    /\ [](MineDone =>
              /\ call.block.target = call.tgt
              /\ DigestAtNonce(call.block, call.block.nonce) < call.tgt
              /\ call.block.nonce >= call.start.nonce
              /\ \A n \in call.start.nonce..(call.block.nonce - 1) :
                     DigestAtNonce(call.start, n) >= call.tgt
              /\ [call.block EXCEPT !.target = 0, !.nonce = 0]
                     = [call.start EXCEPT !.target = 0, !.nonce = 0])
    /\ []((call.op = "mine"
              /\ \A n \in call.start.nonce..MaxNonce :
                     DigestAtNonce(call.start, n) >= call.tgt)
             => ~MineDone)
    /\ ((MineRunning
            /\ \E n \in call.block.nonce..MaxNonce :
                   DigestAtNonce(call.block, n) < call.tgt)
           ~> MineDone)

\* C15, witness: mine returned at a target below the largest, having started
\* from a nonce above 0 and raised it more than once.
C15_Witness ==
    /\ MineDone
    /\ call.tgt < HashSpace
    /\ call.start.nonce > 0
    /\ call.block.nonce > call.start.nonce + 1

\* The hash value of a block like the one mine was called on, mined at tgt.
MinedDigest(tgt) == Digest(GetHash(Mine(call.start, tgt)))

OutputTotal(outputs) ==
    IF Len(outputs) = 0 THEN 0
    ELSE IF Len(outputs) = 1 THEN outputs[1].amount
    ELSE outputs[1].amount + outputs[2].amount

WrittenOutRoot(s) ==
    IF Len(s) = 0 THEN 0
    ELSE IF Len(s) = 1 THEN s[1]
    ELSE IF Len(s) = 2 THEN Sha256Pair(s[1], s[2])
    ELSE IF Len(s) = 3
        THEN Sha256Pair(Sha256Pair(s[1], s[2]), Sha256Pair(s[3], 0))
    ELSE IF Len(s) = 4
        THEN Sha256Pair(Sha256Pair(s[1], s[2]), Sha256Pair(s[3], s[4]))
    ELSE IF Len(s) = 5
        THEN Sha256Pair(Sha256Pair(Sha256Pair(s[1], s[2]), Sha256Pair(s[3], s[4])),
                        Sha256Pair(Sha256Pair(s[5], 0), 0))
    ELSE Sha256Pair(Sha256Pair(Sha256Pair(s[1], s[2]), Sha256Pair(s[3], s[4])),
                    Sha256Pair(Sha256Pair(s[5], s[6]), 0))

\* s with the items at i and j swapped.
Swapped(s, i, j) ==
    [k \in 1..Len(s) |-> IF k = i THEN s[j] ELSE IF k = j THEN s[i] ELSE s[k]]

\* C18: calcMerkleRoot returns 0 for no items, the hash of the item for one,
\* and else the root of the tree that pads every odd level with one zero node
\* and hashes adjacent pairs left to right; swapping two items of different
\* hashes gives another root.
C18_MerkleRoot ==
    call.op = "calcMerkleRoot" =>
        /\ call.result = WrittenOutRoot(call.hashes)
        /\ \A i \in 1..Len(call.hashes), j \in 1..Len(call.hashes) :
               call.hashes[i] # call.hashes[j] =>
                   CalcMerkleRoot(Swapped(call.hashes, i, j)) # call.result

\* C18, witness: the root of five items, whose second level is odd too.
C18_Witness ==
    /\ call.op = "calcMerkleRoot"
    /\ Len(call.hashes) = 5
    /\ call.hashes[4] # call.hashes[5]
    /\ call.result = WrittenOutRoot(call.hashes)

\* The keys the inputs of a transaction refer to.
InputKeys(tx) == {InputKey(tx.inputs[i]) : i \in 1..Len(tx.inputs)}

\* The keys the transactions of a block after the first consume.
ConsumedBy(block) ==
    UNION {InputKeys(Obj(block.transactions[k])) : k \in 2..Len(block.transactions)}

\* C19: no accepted block has an input that refers to an entry which the same
\* transaction lists twice, which an earlier transaction of the block
\* consumed, or which a block among its ancestors consumed.
C19_EntryConsumedOncePerFork ==
    \A h \in DOMAIN blocks :
        LET txs == blocks[h].transactions
        IN \A k \in 2..Len(txs) :
               /\ Cardinality(InputKeys(Obj(txs[k]))) = Len(Obj(txs[k]).inputs)
               /\ \A e \in 2..(k - 1) :
                      InputKeys(Obj(txs[k])) \cap InputKeys(Obj(txs[e])) = {}
               /\ \A a \in Ancestry(h) \ {h} :
                      InputKeys(Obj(txs[k])) \cap ConsumedBy(blocks[a]) = {}

\* What Block.validate returns for a block of the list d against Funded.
FundedValidation(d, m) ==
    BlockValidate(MakeBlock(ZeroHash, d, d, HashSpace, 0), Funded, m)

\* C20: the snapshot of every accepted block but the genesis holds at most the
\* coins of its parent's snapshot plus maxMintCoinsPerTx; and a block that
\* Block.validate accepts against a dictionary that holds coins leaves at most
\* those coins plus the mint allowance, also when a transaction lists an
\* unspent output twice.
C20_NoValueBeyondMint ==
    /\ \A h \in (DOMAIN blocks) \ {order[1]} :
           /\ h \in DOMAIN utxo_state
           /\ blocks[h].priorHash \in DOMAIN utxo_state
           /\ UtxoTotal(utxo_state[h])
                  <= UtxoTotal(utxo_state[blocks[h].priorHash]) + maxMintCoinsPerTx
    /\ \A d \in FundedLists, m \in MintLimits :
           FundedValidation(d, m).status = "ok" =>
               UtxoTotal(FundedValidation(d, m).utxo) <= UtxoTotal(Funded) + m

\* C20, witness: the index holds an accepted block with a spend; against the
\* funded dictionary the spend of the funded output is accepted, and the
\* transaction that lists it twice passes Transaction.validate while its block
\* is refused.
C20_Witness ==
    /\ \E h \in DOMAIN utxo_state :
           /\ h # order[1]
           /\ Len(blocks[h].transactions) = 3
           /\ DOMAIN utxo_state[h] # {}
    /\ FundedValidation(<<"Coinbase", "SpendFunded">>, maxMintCoinsPerTx).status = "ok"
    /\ TransactionValidate(Obj("SpendFundedTwice"), Funded) = PyTrue
    /\ FundedValidation(<<"Coinbase", "SpendFundedTwice">>, maxMintCoinsPerTx).status = None

\* The key getTip takes is the earliest inserted of the keys whose recorded
\* cumulative work no key's recorded cumulative work exceeds.
TipIsEarliestOfMaxima ==
    \E i \in 1..Len(order) :
        /\ order[i] = MaxWorkKey
        /\ GetTip = blocks[order[i]]
        /\ \A j \in 1..Len(order) :
               ~RatLess(cumulative_work[order[i]], cumulative_work[order[j]])
        /\ \A j \in 1..(i - 1) :
               RatLess(cumulative_work[order[j]], cumulative_work[order[i]])

\* The hash of the block getTip returns changes in a step only to a hash that
\* was no key before the step and whose recorded cumulative work exceeds the
\* recorded cumulative work of every key before the step.
TipChangesOnlyForMoreWork ==
    GetHash(GetTip') # GetHash(GetTip) =>
        /\ GetHash(GetTip') \notin DOMAIN blocks
        /\ \A g \in DOMAIN cumulative_work :
               RatLess(cumulative_work[g],
                       cumulative_work'[GetHash(GetTip')])

\* An extend of a block whose hash is a key already leaves the hash of the
\* block getTip returns as it was.
ReExtendKeepsTip ==
    DOMAIN blocks' = DOMAIN blocks => GetHash(GetTip') = GetHash(GetTip)

\* C21: among the accepted blocks of maximum cumulative work getTip returns
\* the one accepted earliest; through every extend the block getTip returns
\* changes only when the newly accepted block has strictly more cumulative
\* work than every block accepted before; and an extend of a block that is
\* accepted already does not change the tip.
C21_TipChangesOnlyForMoreWork ==
    /\ []TipIsEarliestOfMaxima
    /\ [][TipChangesOnlyForMoreWork]_vars
    /\ [][ReExtendKeepsTip]_vars

====
